---- MODULE Spec2Model ----
(***************************************************************************)
(* Threaded TCP echo server (server.c): the listener loop of main, one     *)
(* client_thread per accepted connection, the mutex-protected counter      *)
(* g_connected_clients, and the peers (client.c) as the environment.       *)
(***************************************************************************)
EXTENDS Integers, Sequences, FiniteSets, TLC

\* ---------------------------------------------------------------- bounds
\* Connections the listener accepts in one run (accept is unbounded in the code).
MaxConns == 2
\* Bytes the server receives in one run, over all connections.
MaxBytes == 3
\* Spontaneous I/O and allocation failures the environment injects in one run.
MaxFaults == 1
\* Capacity of the handler's buffer; 4096 in server.c:20, narrowed here so
\* that a message can fill and exceed it.
BUF_SIZE == 2
\* size_t arithmetic is modulo 2^64 in the build; narrowed here to a modulus
\* that still exceeds every length the model uses.
SIZE_MOD == 16

\* ------------------------------------------------------------- constants
\* g_connected_clients = 0 at program start.
InitialClients == 0
\* The listening socket takes the first descriptor after stdin/stdout/stderr.
LISTEN_FD == 3

Conns == 1..MaxConns
\* Descriptors accept can return: one per connection suffices, and a closed
\* descriptor is reused by the next accept.
ClientFds == (LISTEN_FD + 1)..(LISTEN_FD + MaxConns)

\* The byte stream the peer of connection c sends, the client's
\* messages[i % msg_count]: "hello from thread!" and "abcXYZ 123" from its
\* third byte on. A peer may close after any prefix of it.
Text(c) == IF c % 2 = 1
             THEN <<104, 101, 108, 108, 111, 32, 102, 114, 111, 109>>
             ELSE <<99, 88, 89, 90, 32, 49, 50, 51>>

Min(a, b) == IF a < b THEN a ELSE b

\* The stack bytes of buf before the first recv. They are indeterminate in
\* the build, and the program never reads a byte of buf that recv has not
\* written; 'a' is a value to_uppercase would change if it touched it.
UninitBuf == [i \in 1..BUF_SIZE |-> 97]

\* perror / fprintf tags of the error lines on stderr.
ErrTags == {"accept", "malloc", "pthread_create", "recv", "send"}

\* --------------------------------------------------------- pure functions
toupper_SwapCase(b) ==
  IF b >= 97 /\ b <= 122 THEN b - 32
  ELSE IF b >= 65 /\ b <= 90 THEN b + 32 ELSE b

\* toupper in the "C" locale (main never calls setlocale).
toupper(b) == IF b >= 97 /\ b <= 122 THEN b - 32 ELSE b

to_uppercase_Whole(b, cnt) == [i \in 1..Len(b) |-> toupper(b[i])]

\* to_uppercase(buf, n): the first n bytes mapped through toupper, in place.
to_uppercase(b, cnt) ==
  [i \in 1..Len(b) |-> IF i <= cnt THEN toupper(b[i]) ELSE b[i]]

\* (size_t)x
ToSize(x) == x % SIZE_MOD

\* (ssize_t)x for a size_t x
ToSsize(x) == IF 2 * x >= SIZE_MOD THEN x - SIZE_MOD ELSE x

SendChunk_FromStart(b, tot, k) == SubSeq(b, 1, k)

\* The bytes send(fd, p + total, k) hands to the transport.
SendChunk(b, tot, k) == SubSeq(b, tot + 1, tot + k)

\* recv copies the bytes it returns to the start of the buffer.
RecvInto(b, data) ==
  [i \in 1..Len(b) |-> IF i <= Len(data) THEN data[i] ELSE b[i]]

VARIABLES
  g_connected_clients,  \* the shared counter
  g_clients_mtx,        \* 0 when free, else the thread holding it
  lpc,                  \* position of main
  client_fd,            \* main's local: result of the last accept
  fdtab,                \* descriptor -> connection it refers to, 0 when closed
  nAccepted,            \* connections accepted so far
  pc,                   \* position of each client_thread
  fd,                   \* client_thread's local fd
  buf,                  \* client_thread's local buf
  r,                    \* client_thread's local r
  total,                \* send_all's local total
  n,                    \* send_all's local n: the last send result it acted on
  reg,                  \* value loaded by g_connected_clients++ / --
  now,                  \* local now of inc_clients / dec_clients
  rcvd,                 \* bytes of the peer's stream the server has received
  out,                  \* bytes the peer has got back
  peerClosed,           \* the server has seen that the peer closed its socket
  sent,                 \* bytes the transport took during the current send_all call
  clog,                 \* stderr: the counter values reported, in order
  elog,                 \* stderr: number of error lines, by tag
  faults,               \* spontaneous failures injected so far
  faulted,              \* history: a non-EINTR failure or zero write hit the connection
  closes,               \* history: close calls on each connection's descriptor
  incs,                 \* history: increments done by each handler
  decs,                 \* history: decrements done by each handler
  closedBeforeDec,      \* history: the descriptor was closed when the handler decremented
  spawnFailed           \* history: main failed to spawn a handler for the connection

lvars == <<lpc, client_fd, nAccepted>>
hvars == <<pc, fd, buf, r, total, n, reg, now>>
cvars == <<rcvd, out, peerClosed, sent>>
gvars == <<g_connected_clients, g_clients_mtx>>
logs  == <<clog, elog>>
hist  == <<faulted, closes, incs, decs, closedBeforeDec, spawnFailed>>
vars  == <<gvars, lvars, hvars, cvars, fdtab, logs, faults, hist>>

Init ==
  /\ g_connected_clients = InitialClients
  /\ g_clients_mtx = 0
  /\ lpc = "startup"
  /\ client_fd = -1
  /\ fdtab = [f \in ClientFds |-> 0]
  /\ nAccepted = 0
  /\ pc = [h \in Conns |-> "idle"]
  /\ fd = [h \in Conns |-> -1]
  /\ buf = [h \in Conns |-> UninitBuf]
  /\ r = [h \in Conns |-> 0]
  /\ total = [h \in Conns |-> 0]
  /\ n = [h \in Conns |-> 0]
  /\ reg = [h \in Conns |-> 0]
  /\ now = [h \in Conns |-> 0]
  /\ rcvd = [c \in Conns |-> <<>>]
  /\ out = [c \in Conns |-> <<>>]
  /\ peerClosed = [c \in Conns |-> FALSE]
  /\ sent = [c \in Conns |-> 0]
  /\ clog = <<>>
  /\ elog = [t \in ErrTags |-> 0]
  /\ faults = 0
  /\ faulted = [c \in Conns |-> FALSE]
  /\ closes = [c \in Conns |-> 0]
  /\ incs = [h \in Conns |-> 0]
  /\ decs = [h \in Conns |-> 0]
  /\ closedBeforeDec = [h \in Conns |-> FALSE]
  /\ spawnFailed = [c \in Conns |-> FALSE]

\* perror(tag) / fprintf(stderr, ...) of an error line.
LogError(tag) == elog' = [elog EXCEPT ![tag] = @ + 1]

\* The environment may inject one more spontaneous failure.
MayFault == faults < MaxFaults

CloseFd_All(f) ==
  /\ fdtab' = [g \in ClientFds |-> 0]
  /\ closes' = [closes EXCEPT ![fdtab[f]] = @ + 1]

\* close(f): the descriptor stops referring to its connection.
CloseFd(f) ==
  /\ fdtab' = [fdtab EXCEPT ![f] = 0]
  /\ closes' = [closes EXCEPT ![fdtab[f]] = @ + 1]

\* ------------------------------------------------------------------ main
\* Lines 111-140 succeed: argument check, socket, setsockopt, bind, listen.
StartupOK ==
  /\ lpc = "startup"
  /\ lpc' = "accept"
  /\ UNCHANGED <<gvars, client_fd, nAccepted, hvars, cvars, fdtab, logs,
                 faults, hist>>

\* One of them fails: return EXIT_FAILURE or die().
StartupFail ==
  /\ lpc = "startup"
  /\ lpc' = "exited"
  /\ UNCHANGED <<gvars, client_fd, nAccepted, hvars, cvars, fdtab, logs,
                 faults, hist>>

AfterAcceptError_Exit == "exited"

\* Where main goes after a failed accept that is not EINTR: continue.
AfterAcceptError == "accept"

\* accept returns -1 with errno EINTR: continue.
AcceptEINTR ==
  /\ lpc = "accept"
  /\ client_fd' = -1
  /\ lpc' = "accept"
  /\ UNCHANGED <<gvars, nAccepted, hvars, cvars, fdtab, logs, faults, hist>>

\* accept returns -1 with another errno: perror, continue.
AcceptError ==
  /\ lpc = "accept"
  /\ MayFault
  /\ faults' = faults + 1
  /\ client_fd' = -1
  /\ LogError("accept")
  /\ lpc' = AfterAcceptError
  /\ UNCHANGED <<gvars, nAccepted, hvars, cvars, fdtab, clog, hist>>

\* The lowest descriptor not in use.
LowestFree == CHOOSE f \in ClientFds :
                 /\ fdtab[f] = 0
                 /\ \A g \in ClientFds : fdtab[g] = 0 => f <= g

\* accept returns a new descriptor for the next pending connection.
AcceptOK ==
  /\ lpc = "accept"
  /\ nAccepted < MaxConns
  /\ \E f \in ClientFds : fdtab[f] = 0
  /\ nAccepted' = nAccepted + 1
  /\ client_fd' = LowestFree
  /\ fdtab' = [fdtab EXCEPT ![LowestFree] = nAccepted + 1]
  /\ lpc' = "spawn"
  /\ UNCHANGED <<gvars, hvars, cvars, logs, faults, hist>>

SpawnFailCleanup_NoClose(f) ==
  /\ spawnFailed' = [spawnFailed EXCEPT ![fdtab[f]] = TRUE]
  /\ UNCHANGED <<fdtab, closes>>

\* close(client_fd) on both failure paths of the spawn (lines 155, 164).
SpawnFailCleanup(f) ==
  /\ CloseFd(f)
  /\ spawnFailed' = [spawnFailed EXCEPT ![fdtab[f]] = TRUE]

\* malloc returns NULL: log, close(client_fd), continue.
MallocFail ==
  /\ lpc = "spawn"
  /\ MayFault
  /\ faults' = faults + 1
  /\ LogError("malloc")
  /\ SpawnFailCleanup(client_fd)
  /\ lpc' = "accept"
  /\ UNCHANGED <<gvars, client_fd, nAccepted, hvars, cvars, clog,
                 faulted, incs, decs, closedBeforeDec>>

\* malloc succeeds, pthread_create fails: perror, close(client_fd),
\* free(ctx), continue.
CreateFail ==
  /\ lpc = "spawn"
  /\ MayFault
  /\ faults' = faults + 1
  /\ LogError("pthread_create")
  /\ SpawnFailCleanup(client_fd)
  /\ lpc' = "accept"
  /\ UNCHANGED <<gvars, client_fd, nAccepted, hvars, cvars, clog,
                 faulted, incs, decs, closedBeforeDec>>

CtxFd_First == LISTEN_FD + 1

\* ctx->client_fd = client_fd (line 158), read back by the new thread as
\* int fd = ctx->client_fd (line 78).
CtxFd == client_fd

\* malloc and pthread_create succeed: the new thread is client_thread(ctx)
\* with fd = ctx->client_fd, about to call inc_clients; main detaches it
\* and loops.
CreateOK ==
  /\ lpc = "spawn"
  /\ pc' = [pc EXCEPT ![fdtab[client_fd]] = "inc_lock"]
  /\ fd' = [fd EXCEPT ![fdtab[client_fd]] = CtxFd]
  /\ lpc' = "accept"
  /\ UNCHANGED <<gvars, client_fd, nAccepted, buf, r, total, n, reg, now,
                 cvars, fdtab, logs, faults, hist>>

Listener ==
  \/ StartupOK
  \/ StartupFail
  \/ AcceptEINTR
  \/ AcceptError
  \/ AcceptOK
  \/ MallocFail
  \/ CreateFail
  \/ CreateOK

\* ---------------------------------------------------------- the counter
MutexFree_NoWait == TRUE

MutexFree_NoIO ==
  g_clients_mtx = 0 /\ \A h \in Conns : pc[h] \notin {"recv", "send"}

\* pthread_mutex_lock returns once no thread holds the mutex.
MutexFree == g_clients_mtx = 0

Incremented_Twice(v) == v + 2

\* g_connected_clients++ stores the loaded value plus one.
Incremented(v) == v + 1

Decremented_Noop(v) == v

\* g_connected_clients-- stores the loaded value minus one.
Decremented(v) == v - 1

\* inc_clients: pthread_mutex_lock, then the load of g_connected_clients++.
IncLock(h) ==
  /\ pc[h] = "inc_lock"
  /\ MutexFree
  /\ g_clients_mtx' = h
  /\ reg' = [reg EXCEPT ![h] = g_connected_clients]
  /\ pc' = [pc EXCEPT ![h] = "inc_store"]
  /\ UNCHANGED <<g_connected_clients, lvars, fd, buf, r, total, n, now, cvars,
                 fdtab, logs, faults, hist>>

\* The store of g_connected_clients++, int now = g_connected_clients,
\* pthread_mutex_unlock.
IncStore(h) ==
  /\ pc[h] = "inc_store"
  /\ g_connected_clients' = Incremented(reg[h])
  /\ now' = [now EXCEPT ![h] = g_connected_clients']
  /\ reg' = [reg EXCEPT ![h] = 0]
  /\ g_clients_mtx' = 0
  /\ incs' = [incs EXCEPT ![h] = @ + 1]
  /\ pc' = [pc EXCEPT ![h] = "inc_print"]
  /\ UNCHANGED <<lvars, fd, buf, r, total, n, cvars, fdtab, logs, faults, faulted, closes, decs, closedBeforeDec, spawnFailed>>

\* fprintf(stderr, "[server] connected clients = %d\n", now), after the
\* unlock; inc_clients returns.
IncPrint(h) ==
  /\ pc[h] = "inc_print"
  /\ clog' = Append(clog, now[h])
  /\ now' = [now EXCEPT ![h] = 0]
  /\ pc' = [pc EXCEPT ![h] = "recv"]
  /\ UNCHANGED <<gvars, lvars, fd, buf, r, total, n, reg, cvars, fdtab, elog,
                 faults, hist>>

\* dec_clients: pthread_mutex_lock, then the load of g_connected_clients--.
DecLock(h) ==
  /\ pc[h] = "dec_lock"
  /\ MutexFree
  /\ g_clients_mtx' = h
  /\ reg' = [reg EXCEPT ![h] = g_connected_clients]
  /\ pc' = [pc EXCEPT ![h] = "dec_store"]
  /\ UNCHANGED <<g_connected_clients, lvars, fd, buf, r, total, n, now, cvars,
                 fdtab, logs, faults, hist>>

\* The store of g_connected_clients--, int now = g_connected_clients,
\* pthread_mutex_unlock.
DecStore(h) ==
  /\ pc[h] = "dec_store"
  /\ g_connected_clients' = Decremented(reg[h])
  /\ now' = [now EXCEPT ![h] = g_connected_clients']
  /\ reg' = [reg EXCEPT ![h] = 0]
  /\ g_clients_mtx' = 0
  /\ decs' = [decs EXCEPT ![h] = @ + 1]
  /\ closedBeforeDec' = [closedBeforeDec EXCEPT ![h] = (closes[h] >= 1)]
  /\ pc' = [pc EXCEPT ![h] = "dec_print"]
  /\ UNCHANGED <<lvars, fd, buf, r, total, n, cvars, fdtab, logs, faults, faulted, closes, incs, spawnFailed>>

\* fprintf of now after the unlock; dec_clients and client_thread return.
DecPrint(h) ==
  /\ pc[h] = "dec_print"
  /\ clog' = Append(clog, now[h])
  /\ now' = [now EXCEPT ![h] = 0]
  /\ pc' = [pc EXCEPT ![h] = "done"]
  /\ UNCHANGED <<gvars, lvars, fd, buf, r, total, n, reg, cvars, fdtab, elog,
                 faults, hist>>

\* --------------------------------------------------------- client_thread
BreakTarget_SkipClose == "dec_lock"

\* Every break of the while (1) loop lands on close(fd), line 105.
BreakTarget == "close"

OnRecvZero_Continue == "recv"

OnRecvZero_Send == "send"

\* if (r == 0) break;
OnRecvZero == BreakTarget

\* The connection the handler's descriptor refers to, 0 when it is closed.
Conn(h) == fdtab[fd[h]]

\* Bytes received in this run, over all connections.
RECURSIVE SumLen(_)
SumLen(c) == IF c = 0 THEN 0 ELSE Len(rcvd[c]) + SumLen(c - 1)

BytesReceived == SumLen(MaxConns)

\* The next k bytes of the peer's stream.
NextBytes(c, k) == SubSeq(Text(c), Len(rcvd[c]) + 1, Len(rcvd[c]) + k)

\* Bytes the peer of c can still deliver.
Pending(c) ==
  IF peerClosed[c] THEN 0
  ELSE Min(Len(Text(c)) - Len(rcvd[c]), MaxBytes - BytesReceived)

\* recv returns k > 0 bytes, the next k of the peer's stream, at the start
\* of buf; to_uppercase(buf, r); send_all is entered with total = 0.
RecvData(h, k) ==
  /\ pc[h] = "recv"
  /\ Conn(h) # 0
  /\ k \in 1..Min(BUF_SIZE, Pending(Conn(h)))
  /\ r' = [r EXCEPT ![h] = k]
  /\ buf' = [buf EXCEPT ![h] =
               to_uppercase(RecvInto(@, NextBytes(Conn(h), k)), k)]
  /\ rcvd' = [rcvd EXCEPT ![Conn(h)] = @ \o NextBytes(Conn(h), k)]
  /\ sent' = [sent EXCEPT ![Conn(h)] = 0]
  /\ total' = [total EXCEPT ![h] = 0]
  /\ n' = [n EXCEPT ![h] = 0]
  /\ pc' = [pc EXCEPT ![h] = "send"]
  /\ UNCHANGED <<gvars, lvars, fd, reg, now, out, peerClosed, fdtab,
                 logs, faults, hist>>

\* recv returns 0: the peer has closed its socket (client.c: close(fd)) and
\* everything it sent was received.
RecvZero(h) ==
  /\ pc[h] = "recv"
  /\ Conn(h) # 0
  /\ peerClosed' = [peerClosed EXCEPT ![Conn(h)] = TRUE]
  /\ r' = [r EXCEPT ![h] = 0]
  /\ pc' = [pc EXCEPT ![h] = OnRecvZero]
  /\ UNCHANGED <<gvars, lvars, fd, buf, total, n, reg, now, rcvd, out, sent,
                 fdtab, logs, faults, hist>>

\* recv returns -1 with errno EINTR: continue, the same recv is called again.
RecvEINTR(h) ==
  /\ pc[h] = "recv"
  /\ UNCHANGED vars

\* recv returns -1 with another errno: perror, break.
RecvError(h) ==
  /\ pc[h] = "recv"
  /\ MayFault
  /\ faults' = faults + 1
  /\ r' = [r EXCEPT ![h] = -1]
  /\ LogError("recv")
  /\ faulted' = [faulted EXCEPT ![h] = TRUE]
  /\ pc' = [pc EXCEPT ![h] = BreakTarget]
  /\ UNCHANGED <<gvars, lvars, fd, buf, total, n, reg, now, cvars, fdtab,
                 clog, closes, incs, decs, closedBeforeDec,
                 spawnFailed>>

\* The rest of one iteration of send_all's loop once send has returned res
\* (and not EINTR): break on 0, else total += (size_t)n; when the loop ends,
\* send_all returns (ssize_t)total and client_thread tests it.
AfterSend(h, res) ==
  LET tot == IF res = 0 THEN total[h] ELSE (total[h] + ToSize(res)) % SIZE_MOD
      ends == res = 0 \/ ~(tot < r[h])
  IN /\ n' = [n EXCEPT ![h] = res]
     /\ total' = [total EXCEPT ![h] = tot]
     /\ IF ~ends
          THEN /\ pc' = pc
               /\ elog' = elog
          ELSE IF ToSsize(tot) < 0
            THEN /\ LogError("send")
                 /\ pc' = [pc EXCEPT ![h] = BreakTarget]
            ELSE /\ elog' = elog
                 /\ pc' = [pc EXCEPT ![h] = "recv"]

\* send accepts k > 0 of the len - total bytes offered.
SendOK(h, k) ==
  /\ pc[h] = "send"
  /\ Conn(h) # 0
  /\ ~peerClosed[Conn(h)]
  /\ k \in 1..(r[h] - total[h])
  /\ out' = [out EXCEPT ![Conn(h)] = @ \o SendChunk(buf[h], total[h], k)]
  /\ sent' = [sent EXCEPT ![Conn(h)] = @ + k]
  /\ AfterSend(h, k)
  /\ UNCHANGED <<gvars, lvars, fd, buf, r, reg, now, rcvd, peerClosed,
                 fdtab, clog, faults, hist>>

\* send returns -1 with errno EINTR: continue, the same send is called again.
SendEINTR(h) ==
  /\ pc[h] = "send"
  /\ UNCHANGED vars

\* send returns -1 with another errno while the peer is there.
SendError(h) ==
  /\ pc[h] = "send"
  /\ Conn(h) # 0
  /\ ~peerClosed[Conn(h)]
  /\ MayFault
  /\ faults' = faults + 1
  /\ faulted' = [faulted EXCEPT ![h] = TRUE]
  /\ AfterSend(h, -1)
  /\ UNCHANGED <<gvars, lvars, fd, buf, r, reg, now, cvars, fdtab, clog,
                 closes, incs, decs, closedBeforeDec, spawnFailed>>

\* send returns -1 with EPIPE (SIGPIPE is ignored, line 111): the peer has
\* closed its socket (client.c: close(fd)), and every later send fails too.
SendPeerGone(h) ==
  /\ pc[h] = "send"
  /\ Conn(h) # 0
  /\ peerClosed' = [peerClosed EXCEPT ![Conn(h)] = TRUE]
  /\ faulted' = [faulted EXCEPT ![h] = TRUE]
  /\ AfterSend(h, -1)
  /\ UNCHANGED <<gvars, lvars, fd, buf, r, reg, now, rcvd, out, sent, fdtab,
                 clog, faults, closes, incs, decs, closedBeforeDec,
                 spawnFailed>>

\* send returns 0.
SendZero(h) ==
  /\ pc[h] = "send"
  /\ MayFault
  /\ faults' = faults + 1
  /\ faulted' = [faulted EXCEPT ![h] = TRUE]
  /\ AfterSend(h, 0)
  /\ UNCHANGED <<gvars, lvars, fd, buf, r, reg, now, cvars, fdtab, clog, closes, incs, decs, closedBeforeDec, spawnFailed>>

\* close(fd), line 105.
Close(h) ==
  /\ pc[h] = "close"
  /\ CloseFd(fd[h])
  /\ pc' = [pc EXCEPT ![h] = "dec_lock"]
  /\ UNCHANGED <<gvars, lvars, fd, buf, r, total, n, reg, now, cvars, logs,
                 faults, faulted, incs, decs, closedBeforeDec,
                 spawnFailed>>

Handler(h) ==
  \/ IncLock(h)
  \/ IncStore(h)
  \/ IncPrint(h)
  \/ \E k \in 1..BUF_SIZE : RecvData(h, k)
  \/ RecvZero(h)
  \/ RecvEINTR(h)
  \/ RecvError(h)
  \/ \E k \in 1..BUF_SIZE : SendOK(h, k)
  \/ SendEINTR(h)
  \/ SendError(h)
  \/ SendPeerGone(h)
  \/ SendZero(h)
  \/ Close(h)
  \/ DecLock(h)
  \/ DecStore(h)
  \/ DecPrint(h)

\* ------------------------------------------------------------------ next
\* The peers act through the results of accept, recv and send.
Next ==
  \/ Listener
  \/ \E h \in Conns : Handler(h)

Spec == Init /\ [][Next]_vars

\* Scheduling: every spawned client_thread keeps being scheduled, and every
\* peer eventually closes its socket, so that no recv or send waits for ever.
FairSpec ==
  /\ Spec
  /\ \A h \in Conns : WF_vars(Handler(h))

\* ------------------------------------------------------------ properties
\* main has created the thread of handler h.
Spawned(h) == pc[h] # "idle"

\* Handler h has returned from inc_clients and not yet from dec_clients.
BetweenCalls(h) ==
  pc[h] \in {"recv", "send", "close", "dec_lock", "dec_store", "dec_print"}

\* Handler h has executed its g_connected_clients++ and not yet its
\* g_connected_clients--.
Counted(h) ==
  pc[h] \in {"inc_print", "recv", "send", "close", "dec_lock", "dec_store"}

\* Handler h is inside the read-modify-write of the counter.
InRMW(h) == pc[h] \in {"inc_store", "dec_store"}

Upper(s) == [i \in 1..Len(s) |-> toupper(s[i])]

\* C1 as stated: in every reachable state the counter equals the number of
\* handlers that have completed inc_clients and not yet completed
\* dec_clients, is never negative and never exceeds the accepted connections.
C1_CounterEqualsCompletedCalls ==
  /\ g_connected_clients = Cardinality({h \in Conns : BetweenCalls(h)})
  /\ g_connected_clients >= 0
  /\ g_connected_clients <= nAccepted

\* C1 amended: in every reachable state the counter equals the number of
\* handlers that have executed the increment inside inc_clients and not yet
\* the decrement inside dec_clients; it is never negative and never exceeds
\* the number of connections accepted so far.
C1_CounterEqualsCounted ==
  /\ g_connected_clients = Cardinality({h \in Conns : Counted(h)})
  /\ g_connected_clients >= 0
  /\ g_connected_clients <= nAccepted

\* One handler has run to completion while another is counted.
C1_Witness ==
  \E h1, h2 \in Conns :
    /\ pc[h1] = "done"
    /\ pc[h2] = "send"
    /\ g_connected_clients = 1

\* C2: no lost updates. At most one thread is inside the counter's
\* read-modify-write at a time, every counter value lies in [0, N] for the N
\* handlers spawned, and once all N have finished the counter is back at
\* its starting value.
C2_NoLostUpdates ==
  /\ Cardinality({h \in Conns : InRMW(h)}) <= 1
  /\ \A h \in Conns : InRMW(h) => g_clients_mtx = h
  /\ g_connected_clients >= 0
  /\ g_connected_clients <= Cardinality({h \in Conns : Spawned(h)})
  /\ (\A h \in Conns : pc[h] \in {"idle", "done"})
       => g_connected_clients = InitialClients

\* Two handlers that were counted at the same time have both finished.
C2_Witness ==
  /\ \A h \in Conns : pc[h] = "done"
  /\ \E i \in 1..Len(clog) : clog[i] = 2
  /\ g_connected_clients = InitialClients

\* C3: finalization runs exactly once on every exit path of the loop: the
\* descriptor is closed exactly once, then the counter is decremented
\* exactly once, the close before the decrement, and the decrement after
\* the same handler's increment.
C3_FinalizeOnce ==
  \A h \in Conns :
    /\ closes[h] <= 1
    /\ incs[h] <= 1
    /\ decs[h] <= 1
    /\ decs[h] = 1 => (closedBeforeDec[h] /\ incs[h] = 1)
    /\ pc[h] \in {"dec_lock", "dec_store", "dec_print", "done"} => closes[h] = 1
    /\ pc[h] = "done" => (decs[h] = 1 /\ fdtab[fd[h]] # h)

\* One handler has finished after a failed write, another after its peer
\* closed.
C3_Witness ==
  \E h1, h2 \in Conns :
    /\ pc[h1] = "done" /\ elog["send"] = 1 /\ r[h1] > 0
    /\ pc[h2] = "done" /\ r[h2] = 0

\* C4: on a connection that met no I/O error, the bytes echoed so far,
\* followed by the bytes of the current cycle still to be written, are the
\* byte-wise transform of the bytes received so far, in order; between
\* cycles and at the end the echo is the transform of everything received.
C4_EchoIsTransform ==
  \A c \in Conns :
    (Spawned(c) /\ ~faulted[c]) =>
      /\ pc[c] = "send" =>
           out[c] \o SubSeq(buf[c], total[c] + 1, r[c]) = Upper(rcvd[c])
      /\ pc[c] # "send" => out[c] = Upper(rcvd[c])

\* A message longer than the buffer has been echoed in full.
C4_Witness ==
  \E c \in Conns :
    /\ pc[c] = "done"
    /\ ~faulted[c]
    /\ Len(rcvd[c]) = 3
    /\ out[c] = <<72, 69, 76>>

\* C5 as stated: send_all's loop stops as soon as a write fails with an
\* error other than EINTR, so it is never about to call send again after
\* such a failure in the same call.
C5_LoopStopsOnError ==
  \A h \in Conns : pc[h] = "send" => n[h] >= 0

\* C6 as stated: the values reported on stderr are the post-mutation values
\* of a valid serialization of the increments and decrements: they start
\* from 0 and consecutive values differ by exactly +1 or -1.
C6_LogIsSerialization ==
  \A i \in 1..Len(clog) :
    LET prev == IF i = 1 THEN InitialClients ELSE clog[i - 1]
    IN clog[i] - prev \in {1, -1}

\* None of the connections handed to a handler has been closed.
NoneClosed == \A h \in Conns : Spawned(h) => closes[h] = 0

\* C7 as stated: when K connections have been handed to spawned handlers
\* and none has been closed, the counter equals K.
C7_CounterEqualsSpawned ==
  NoneClosed =>
    g_connected_clients = Cardinality({h \in Conns : Spawned(h)})

\* C7 amended: when K connections have been handed to spawned handlers and
\* none has been closed, the counter equals the number of those handlers
\* that have executed their increment: at most K, and K once all have.
C7_CounterEqualsIncremented ==
  NoneClosed =>
    /\ g_connected_clients =
         Cardinality({h \in Conns : Spawned(h) /\ pc[h] \notin {"inc_lock", "inc_store"}})
    /\ g_connected_clients <= Cardinality({h \in Conns : Spawned(h)})
    /\ (\A h \in Conns : Spawned(h) => incs[h] = 1)
         => g_connected_clients = Cardinality({h \in Conns : Spawned(h)})

\* Two connections are being handled, none closed, both counted.
C7_Witness ==
  /\ NoneClosed
  /\ \A h \in Conns : Spawned(h) /\ incs[h] = 1
  /\ g_connected_clients = MaxConns

\* C8: under fair scheduling, with every peer eventually closing, every
\* spawned handler eventually runs to completion and has released its
\* connection, and the counter eventually returns to its starting value
\* and stays there.
C8_HandlersComplete ==
  /\ \A h \in Conns :
       Spawned(h) ~> (pc[h] = "done" /\ closes[h] = 1 /\ fdtab[fd[h]] # h)
  /\ <>[](g_connected_clients = InitialClients)

\* Every connection was handled and every handler has completed.
C8_Witness ==
  /\ nAccepted = MaxConns
  /\ \A h \in Conns : pc[h] = "done" /\ peerClosed[h]
  /\ g_connected_clients = InitialClients

\* C9: a connection main failed to spawn a handler for was closed exactly
\* once and never counted, main is back in its loop, and every open
\* accepted descriptor is held by main between accept and spawn or owned
\* by the handler spawned for it.
C9_SpawnFailureReleases ==
  /\ \A c \in Conns :
       spawnFailed[c] =>
         /\ closes[c] = 1
         /\ incs[c] = 0
         /\ pc[c] = "idle"
         /\ \A f \in ClientFds : fdtab[f] # c
         /\ lpc \in {"accept", "spawn"}
  /\ \A f \in ClientFds :
       fdtab[f] # 0 =>
         \/ lpc = "spawn" /\ client_fd = f
         \/ /\ fd[fdtab[f]] = f
            /\ pc[fdtab[f]] \in {"inc_lock", "inc_store", "inc_print", "recv",
                                 "send", "close"}

\* After a failed spawn main has accepted the next connection and spawned
\* its handler.
C9_Witness ==
  /\ spawnFailed[1]
  /\ g_connected_clients = 1
  /\ pc[2] = "recv"

\* C10: once listening, main never leaves its accept loop, and a failed
\* accept is followed by another accept with no handler spawned, no
\* descriptor taken and the counter unchanged; only a failure other than
\* EINTR is logged.
C10_ListenerSurvives ==
  [][ /\ lpc \in {"accept", "spawn"} => lpc' \in {"accept", "spawn"}
      /\ (lpc = "accept" /\ lpc' = "accept" /\ client_fd' = -1
            /\ <<client_fd, elog["accept"]>>' # <<client_fd, elog["accept"]>>)
           => /\ UNCHANGED <<g_connected_clients, pc, nAccepted, fdtab>>
              /\ elog'["accept"] \in {elog["accept"], elog["accept"] + 1}
      /\ elog'["accept"] # elog["accept"]
           => /\ lpc = "accept" /\ lpc' = "accept"
              /\ elog'["accept"] = elog["accept"] + 1
              /\ UNCHANGED <<g_connected_clients, pc, nAccepted, fdtab>>
    ]_vars

\* A failed accept was logged and the next accept succeeded.
C10_Witness ==
  /\ elog["accept"] = 1
  /\ nAccepted = 1
  /\ lpc = "spawn"

\* Handler h is at a point that is not an I/O call and not pthread_mutex_lock.
Running(h) ==
  pc[h] \in {"inc_store", "inc_print", "close", "dec_store", "dec_print"}

\* C11: the listener never waits on handler progress, and a handler
\* suspended in recv or send stalls nobody: whatever the handlers are doing,
\* main can accept a pending connection and spawn its handler; the mutex is
\* never held across recv or send, its holder can always release it, and
\* every other handler can take its next step.
C11_NoStall ==
  /\ (lpc = "accept" /\ nAccepted < MaxConns) => ENABLED AcceptOK
  /\ lpc = "spawn" => ENABLED CreateOK
  /\ g_clients_mtx # 0 => pc[g_clients_mtx] \in {"inc_store", "dec_store"}
  /\ \A h \in Conns :
       /\ pc[h] \in {"recv", "send"} => g_clients_mtx # h
       /\ (pc[h] \in {"inc_lock", "dec_lock"} /\ g_clients_mtx = 0)
            => ENABLED (IncLock(h) \/ DecLock(h))
       /\ Running(h)
            => ENABLED (IncStore(h) \/ IncPrint(h) \/ Close(h)
                          \/ DecStore(h) \/ DecPrint(h))

\* While the first handler stays in recv on a peer that has sent nothing,
\* main has accepted the next connection and its handler has received,
\* echoed and finished.
C11_Witness ==
  /\ pc[1] = "recv" /\ rcvd[1] = <<>> /\ ~peerClosed[1]
  /\ pc[2] = "done" /\ Len(out[2]) > 0

\* C12 as stated: a recv or send failure other than EINTR is logged and
\* ends the handler's loop: the handler's next position is close(fd), with
\* no further recv or send.
C12_FailureEndsHandler ==
  [][ \A h \in Conns :
        /\ (pc[h] = "recv" /\ r'[h] < 0)
             => /\ pc'[h] = BreakTarget
                /\ elog'["recv"] = elog["recv"] + 1
        /\ (pc[h] = "send" /\ n'[h] < 0 /\ total'[h] # total[h])
             => /\ pc'[h] = BreakTarget
                /\ elog'["send"] = elog["send"] + 1
    ]_vars

\* Handler h takes a step.
StepOf(h) == <<pc[h], fd[h], buf[h], r[h], total[h], n[h]>>'
               # <<pc[h], fd[h], buf[h], r[h], total[h], n[h]>>

\* C13: a per-connection error stays in its handler. Every step of a
\* handler that has met a recv or send failure leaves the descriptor,
\* buffer, loop position and connection of every other handler, the state
\* of main and every other descriptor unchanged, and changes the counter
\* only by that handler's own decrement, which happens once.
C13_ErrorStaysLocal ==
  [][ \A h \in Conns :
        (faulted'[h] /\ StepOf(h)) =>
          /\ \A g \in Conns \ {h} :
               UNCHANGED <<pc[g], fd[g], buf[g], r[g], total[g], n[g],
                           rcvd[g], out[g], peerClosed[g], faulted[g]>>
          /\ UNCHANGED lvars
          /\ \A f \in ClientFds \ {fd[h]} : fdtab'[f] = fdtab[f]
          /\ g_connected_clients' \in
               {g_connected_clients, g_connected_clients - 1}
          /\ g_connected_clients' # g_connected_clients
               => (decs[h] = 0 /\ decs'[h] = 1)
    ]_vars

\* One handler has finished after a logged failure while the other, which
\* met none, is in the middle of echoing.
C13_Witness ==
  \E h, g \in Conns :
    /\ pc[h] = "done" /\ faulted[h] /\ decs[h] = 1
    /\ elog["recv"] + elog["send"] = 1
    /\ pc[g] = "send" /\ ~faulted[g] /\ total[g] = 1

\* toupper on every byte value: 'a'..'z' go to 'A'..'Z', 32 below; every
\* other byte is kept.
ByteMapOK ==
  \A b \in 0..255 :
    /\ b \in 97..122 => (toupper(b) = b - 32 /\ toupper(b) \in 65..90)
    /\ b \notin 97..122 => toupper(b) = b

\* C14: the transform maps each byte in 'a'..'z' to its uppercase
\* counterpart and every other byte value to itself, and in each cycle it
\* is applied to exactly the r bytes just read: byte i of the buffer is the
\* transform of byte i of what recv returned, and the buffer beyond the
\* first r bytes is as it was before the recv.
C14_TransformExactlyRead ==
  [][ /\ ByteMapOK
      /\ \A h \in Conns :
           (pc[h] = "recv" /\ pc'[h] = "send") =>
             \A i \in 1..BUF_SIZE :
               buf'[h][i] =
                 IF i <= r'[h]
                   THEN toupper(rcvd'[Conn(h)][Len(rcvd[Conn(h)]) + i])
                   ELSE buf[h][i]
    ]_vars

\* One byte was read into a fresh buffer: it is uppercased, the last byte
\* of the buffer still holds its initial lowercase value.
C14_Witness ==
  \E h \in Conns :
    /\ pc[h] = "send"
    /\ r[h] = 1
    /\ buf[h][1] = 72
    /\ buf[h][BUF_SIZE] = 97

\* Handler h has left its loop.
Finalizing(h) ==
  pc[h] \in {"close", "dec_lock", "dec_store", "dec_print", "done"}

\* C15: when recv returns 0 the handler writes nothing for that read, logs
\* nothing and goes to close(fd); a handler whose peer closed without
\* sending a byte has written nothing at all, met no error, and once it is
\* done it has incremented and decremented once each, so that the counter
\* is what it is without this handler.
C15_ZeroReadEndsQuietly ==
  [][ \A h \in Conns :
        /\ (pc[h] = "recv" /\ pc'[h] # "recv" /\ r'[h] = 0)
             => /\ pc'[h] = BreakTarget
                /\ UNCHANGED <<elog, out, faulted>>
        /\ (Finalizing(h) /\ r[h] = 0 /\ rcvd[h] = <<>>)'
             => (out[h] = <<>> /\ ~faulted[h])'
        /\ (pc[h] = "done" /\ r[h] = 0)'
             => /\ (incs[h] = 1 /\ decs[h] = 1 /\ closes[h] = 1)'
                /\ g_connected_clients' =
                     Cardinality({g \in Conns \ {h} : Counted(g)})'
    ]_vars

\* A peer closed without sending: its handler is done, nothing was written
\* or logged, and the counter is back at its starting value.
C15_Witness ==
  \E h \in Conns :
    /\ pc[h] = "done" /\ r[h] = 0
    /\ rcvd[h] = <<>> /\ out[h] = <<>> /\ peerClosed[h]
    /\ \A t \in ErrTags : elog[t] = 0
    /\ g_connected_clients = InitialClients

\* Handler h has not yet closed its descriptor.
Live(h) ==
  pc[h] \in {"inc_lock", "inc_store", "inc_print", "recv", "send", "close"}

\* C16: no two handlers share a connection. The descriptor of a handler that
\* has not closed it refers to that handler's own connection, two such
\* handlers hold different descriptors, every open accepted descriptor is
\* held by main before the spawn or by that one handler, a handler that has
\* closed its descriptor is past every recv, send and close (also when the
\* number has been given out again), and every byte a connection received
\* back is the transform of a byte sent on that connection.
C16_NoSharedConnection ==
  /\ \A h \in Conns : Live(h) => (fd[h] \in ClientFds /\ Conn(h) = h)
  /\ \A h, g \in Conns : (Live(h) /\ Live(g) /\ h # g) => fd[h] # fd[g]
  /\ \A f \in ClientFds :
       fdtab[f] # 0 =>
         \/ lpc = "spawn" /\ client_fd = f
         \/ Live(fdtab[f]) /\ fd[fdtab[f]] = f
  /\ \A h \in Conns : closes[h] >= 1 => ~Live(h)
  /\ \A c \in Conns :
       \A i \in 1..Len(out[c]) :
         \E j \in 1..Len(rcvd[c]) : out[c][i] = toupper(rcvd[c][j])

\* A descriptor number was reused: its first handler is done, the handler
\* of the later connection is echoing on it, and each peer got its own bytes.
C16_Witness ==
  \E h, g \in Conns :
    /\ h # g /\ fd[h] = fd[g]
    /\ pc[h] = "done" /\ pc[g] = "send"
    /\ Len(out[h]) > 0 /\ Len(out[g]) > 0

\* ------------------------------------------- to_uppercase and send_all alone
\* Byte values around the edges of 'A'..'Z' and 'a'..'z' and of the byte range.
ByteSamples == {0, 64, 65, 90, 91, 96, 97, 122, 123, 128, 255}

\* The first handler right after a recv that returned r > 0 arbitrary bytes
\* into its buffer (line 87), about to call to_uppercase (line 97).
UnitInit ==
  /\ g_connected_clients = InitialClients + 1
  /\ g_clients_mtx = 0
  /\ lpc = "accept"
  /\ client_fd = LISTEN_FD + 1
  /\ fdtab = [f \in ClientFds |-> IF f = LISTEN_FD + 1 THEN 1 ELSE 0]
  /\ nAccepted = 1
  /\ pc = [h \in Conns |-> IF h = 1 THEN "transform" ELSE "idle"]
  /\ fd = [h \in Conns |-> IF h = 1 THEN LISTEN_FD + 1 ELSE -1]
  /\ \E b \in [1..BUF_SIZE -> ByteSamples] :
       \E k \in 1..BUF_SIZE :
         /\ buf = [h \in Conns |-> IF h = 1 THEN b ELSE UninitBuf]
         /\ r = [h \in Conns |-> IF h = 1 THEN k ELSE 0]
         /\ rcvd = [c \in Conns |-> IF c = 1 THEN SubSeq(b, 1, k) ELSE <<>>]
  /\ total = [h \in Conns |-> 0]
  /\ n = [h \in Conns |-> 0]
  /\ reg = [h \in Conns |-> 0]
  /\ now = [h \in Conns |-> 0]
  /\ out = [c \in Conns |-> <<>>]
  /\ peerClosed = [c \in Conns |-> FALSE]
  /\ sent = [c \in Conns |-> 0]
  /\ clog = <<InitialClients + 1>>
  /\ elog = [t \in ErrTags |-> 0]
  /\ faults = 0
  /\ faulted = [c \in Conns |-> FALSE]
  /\ closes = [c \in Conns |-> 0]
  /\ incs = [h \in Conns |-> IF h = 1 THEN 1 ELSE 0]
  /\ decs = [h \in Conns |-> 0]
  /\ closedBeforeDec = [h \in Conns |-> FALSE]
  /\ spawnFailed = [c \in Conns |-> FALSE]

\* to_uppercase(buf, (size_t)r), line 97; send_all is entered with total = 0.
Transform(h) ==
  /\ pc[h] = "transform"
  /\ buf' = [buf EXCEPT ![h] = to_uppercase(@, r[h])]
  /\ total' = [total EXCEPT ![h] = 0]
  /\ n' = [n EXCEPT ![h] = 0]
  /\ pc' = [pc EXCEPT ![h] = "send"]
  /\ UNCHANGED <<gvars, lvars, fd, r, reg, now, cvars, fdtab, logs, faults,
                 hist>>

\* One iteration of send_all's loop for any result of send other than
\* EINTR: -1, 0, or a count up to the len - total bytes offered. What the
\* transport took is not recorded here.
SendResult(h, res) ==
  /\ pc[h] = "send"
  /\ res \in {-1, 0} \cup 1..(r[h] - total[h])
  /\ AfterSend(h, res)
  /\ UNCHANGED <<gvars, lvars, fd, buf, r, reg, now, cvars, fdtab, clog,
                 faults, hist>>

UnitNext ==
  \/ Transform(1)
  \/ \E res \in -1..BUF_SIZE : SendResult(1, res)

\* The thread is scheduled and every send returns.
UnitSpec == UnitInit /\ [][UnitNext]_vars /\ WF_vars(UnitNext)

\* No byte of s is in 'a'..'z'.
NoLower(s) == \A i \in 1..Len(s) : s[i] \notin 97..122

\* C17: the transform is idempotent. Applied to bytes none of which is in
\* 'a'..'z' it returns them unchanged; its result holds no byte in
\* 'a'..'z', and applying it again to its result changes nothing.
C17_Idempotent ==
  [][ \A h \in Conns :
        (pc[h] = "transform" /\ pc'[h] = "send") =>
          /\ NoLower(SubSeq(buf[h], 1, r[h])) => buf'[h] = buf[h]
          /\ NoLower(SubSeq(buf'[h], 1, r[h]))
          /\ to_uppercase(buf'[h], r[h]) = buf'[h]
          /\ Upper(Upper(rcvd[h])) = Upper(rcvd[h])
    ]_vars

\* The transform has run on a full buffer of bytes that starts with 'Z',
\* ends with '{' and holds no lowercase letter, and has kept it.
C17_Witness ==
  /\ pc[1] = "send"
  /\ r[1] = BUF_SIZE
  /\ rcvd[1][1] = 90 /\ rcvd[1][BUF_SIZE] = 123
  /\ NoLower(rcvd[1])
  /\ buf[1] = rcvd[1]

\* C18 as stated: when send returns 0 the write step stops for this cycle
\* with the count of bytes written so far, nothing is logged, and the
\* handler's next action is another recv on the connection.
C18_ZeroWriteKeepsCount ==
  [][ \A h \in Conns :
        (pc[h] = "send" /\ pc'[h] # "send" /\ n'[h] = 0) =>
          /\ pc'[h] = "recv"
          /\ elog' = elog
          /\ total'[h] = sent[h]
    ]_vars

\* C19 as stated: every call of send_all returns after finitely many send
\* attempts, whatever the results of send, EINTR aside.
C19_SendAllReturns ==
  \A h \in Conns : (pc[h] = "send") ~> (pc[h] # "send")

\* C20 as stated: during one call of send_all the running count never
\* decreases, the transport never takes more than len bytes, and no byte
\* of the buffer goes to the peer more than once.
C20_NoByteResent ==
  [][ \A h \in Conns :
        /\ (pc[h] = "send" /\ pc'[h] = "send") => total'[h] >= total[h]
        /\ pc[h] = "send" => sent'[h] <= r[h]
        /\ Len(out'[h]) <= Len(rcvd'[h])
    ]_vars

====
